---- MODULE Spec2Model ----
(***************************************************************************)
(* RusticNkisi: the FIX-style spike protocol.                              *)
(*   src/src/bin/fixclient.rs  the encoder (build_spike_message) and the   *)
(*                             client that writes one frame to a socket    *)
(*   src/src/main.rs           the acceptor, the per-connection worker     *)
(*                             (handle_fix_connection, find_fix_end,       *)
(*                             parse_fix_spike), the channel and the       *)
(*                             PollExternal consumer                       *)
(* Bytes are integers 0..255; a buffer (Vec<u8>, &[u8], String) is a       *)
(* sequence of bytes.  Indices inside the operators are 0-based as in the  *)
(* source; At(buf, i) reads buf[i].                                         *)
(***************************************************************************)
EXTENDS Integers, Sequences, FiniteSets, TLC

\* ------------------------------------------------------------------ bytes
\* const SOH: u8 = 0x01
SOH == 1
\* b'='
EQ == 61
\* b'0', the first decimal digit
ZERO == 48
\* '-' and '+' (the sign of an integer or float literal), '.'
MINUS == 45
PLUS == 43
DOT == 46
\* a byte that never occurs in valid UTF-8
BADBYTE == 255

At(buf, i) == buf[i + 1]

\* buf[a..b] (b exclusive)
Slice(buf, a, b) == SubSeq(buf, a + 1, b)

IsDigit(b) == b >= ZERO /\ b <= ZERO + 9

RECURSIVE ToDecimal(_)
\* u32/usize::to_string and "{}" of an unsigned integer
ToDecimal(n) ==
    IF n < 10 THEN <<ZERO + n>>
    ELSE Append(ToDecimal(n \div 10), ZERO + (n % 10))

RECURSIVE DecimalValue(_)
\* the value of a non-empty run of decimal digits
DecimalValue(s) ==
    IF Len(s) = 0 THEN 0
    ELSE 10 * DecimalValue(SubSeq(s, 1, Len(s) - 1)) + (s[Len(s)] - ZERO)

\* n copies of byte b
Repeat(b, n) == [k \in 1..n |-> b]

\* the least element of a non-empty set of integers
Least(S) == CHOOSE x \in S : \A y \in S : x <= y

None == [some |-> FALSE]
Some(x) == [some |-> TRUE, val |-> x]

\* ---------------------------------------------------------------- encoder
\* "FIX.4.2"
BeginString == <<70, 73, 88, 46, 52, 46, 50>>
\* "000"
BodyLenPlaceholder == <<48, 48, 48>>
\* "SPK"
MsgTypeSPK == <<83, 80, 75>>
\* "9="
Needle9 == <<57, 61>>

push_fix_field(buf, tag, value) ==
    buf \o ToDecimal(tag) \o <<EQ>> \o value \o <<SOH>>

\* while j < buf.len() && buf[j] != SOH { j += 1 }: where the loop stops, the
\* first delimiter at or after j, or buf.len() when there is none
NextSOH(buf, j) ==
    LET hits == {k \in j..(Len(buf) - 1) : At(buf, k) = SOH}
    IN  IF hits = {} THEN (IF j < Len(buf) THEN Len(buf) ELSE j) ELSE Least(hits)

RECURSIVE FindAfterBodylenFrom(_, _)
FindAfterBodylenFrom(buf, i) ==
    IF i + 2 < Len(buf)
    THEN IF Slice(buf, i, i + 2) = Needle9
         THEN LET j == NextSOH(buf, i + 2)
              IN  IF j < Len(buf) THEN Some(j + 1) ELSE None
         ELSE FindAfterBodylenFrom(buf, i + 1)
    ELSE None

\* the index of the delimiter itself, not of the byte after it
find_after_bodylen_at_soh(buf) ==
    LET r == FindAfterBodylenFrom(buf, 0)
    IN  IF r.some THEN Some(r.val - 1) ELSE None

find_after_bodylen(buf) == FindAfterBodylenFrom(buf, 0)

RECURSIVE WriteBodylenFrom(_, _, _)
WriteBodylenFrom(buf, len, i) ==
    IF i + 2 <= Len(buf)
    THEN IF Slice(buf, i, i + 2) = Needle9
         THEN LET j == NextSOH(buf, i + 2)
              IN  IF j >= Len(buf) THEN None
                  ELSE Some(Slice(buf, 0, i + 2) \o ToDecimal(len)
                            \o Slice(buf, j, Len(buf)))
         ELSE WriteBodylenFrom(buf, len, i + 1)
    ELSE None

\* a rewrite that takes the last "9=" of the buffer for the body-length field
write_bodylen_last(buf, len) ==
    LET is == {i \in 0..(Len(buf) - 2) : Slice(buf, i, i + 2) = Needle9}
        i == CHOOSE m \in is : \A n \in is : n <= m
    IN  IF is = {} THEN None
        ELSE LET j == NextSOH(buf, i + 2)
             IN  IF j >= Len(buf) THEN None
                 ELSE Some(Slice(buf, 0, i + 2) \o ToDecimal(len)
                           \o Slice(buf, j, Len(buf)))

\* Some(the rewritten buffer), or None and the buffer is left as it was
write_bodylen_in_place(buf, len) == WriteBodylenFrom(buf, len, 0)

RECURSIVE SumRange(_, _, _)
\* buf[lo] + ... + buf[hi] (1-based, inclusive), summed by halves
SumRange(buf, lo, hi) ==
    IF lo > hi THEN 0
    ELSE IF lo = hi THEN buf[lo]
    ELSE SumRange(buf, lo, (lo + hi) \div 2) + SumRange(buf, (lo + hi) \div 2 + 1, hi)

\* buf.iter().fold(0u32, |acc, &b| acc + b as u32)
SumBytes(buf) == SumRange(buf, 1, Len(buf))

\* the u32 accumulator cannot wrap for a buffer of under 2^24 bytes
checksum(buf) == SumBytes(buf) % 256

\* format!("{:03}", n): at least three digits, zero padded
Format03(n) ==
    LET d == ToDecimal(n)
    IN  IF Len(d) >= 3 THEN d ELSE Repeat(ZERO, 3 - Len(d)) \o d

\* a header with the message type ahead of the body length
SpikeFields_type_first(spike_id, who, note, ts) ==
    LET b1 == push_fix_field(<<>>, 8, BeginString)
        b2 == push_fix_field(b1, 35, MsgTypeSPK)
        b3 == push_fix_field(b2, 9, BodyLenPlaceholder)
        b4 == push_fix_field(b3, 100, ToDecimal(spike_id))
        b5 == push_fix_field(b4, 101, who)
        b6 == push_fix_field(b5, 102, note)
    IN  push_fix_field(b6, 52, ts)

\* The buffer before the body length is computed (lines 12-23)
SpikeFields(spike_id, who, note, ts) ==
    LET b1 == push_fix_field(<<>>, 8, BeginString)
        b2 == push_fix_field(b1, 9, BodyLenPlaceholder)
        b3 == push_fix_field(b2, 35, MsgTypeSPK)
        b4 == push_fix_field(b3, 100, ToDecimal(spike_id))
        b5 == push_fix_field(b4, 101, who)
        b6 == push_fix_field(b5, 102, note)
    IN  push_fix_field(b6, 52, ts)

\* the checksum taken before the body length is rewritten
build_checksum_first(spike_id, who, note, ts) ==
    LET out0 == SpikeFields(spike_id, who, note, ts)
        body_start == find_after_bodylen(out0)
    IN  IF ~body_start.some THEN [panic |-> TRUE, out |-> <<>>]
        ELSE LET body_len == Len(out0) - body_start.val
                 out1 == write_bodylen_in_place(out0, body_len)
             IN  IF ~out1.some THEN [panic |-> TRUE, out |-> <<>>]
                 ELSE [panic |-> FALSE,
                       out |-> push_fix_field(out1.val, 10,
                                              Format03(checksum(out0)))]

\* [panic |-> TRUE] when an expect() fails, else the returned buffer
build_spike_message(spike_id, who, note, ts) ==
    LET out0 == SpikeFields(spike_id, who, note, ts)
        body_start == find_after_bodylen(out0)
    IN  IF ~body_start.some THEN [panic |-> TRUE, out |-> <<>>]
        ELSE LET body_len == Len(out0) - body_start.val
                 out1 == write_bodylen_in_place(out0, body_len)
             IN  IF ~out1.some THEN [panic |-> TRUE, out |-> <<>>]
                 ELSE [panic |-> FALSE,
                       out |-> push_fix_field(out1.val, 10,
                                              Format03(checksum(out1.val)))]

\* ---------------------------------------------------------------- decoder
\* const FIGURE_W: f32 = 100.0; const FIGURE_H: f32 = 150.0
FIGURE_W == 100
FIGURE_H == 150
\* i32::MAX
I32_MAX == 2147483647
\* "U1", "NKISI"
MsgTypeU1 == <<85, 49>>
SymbolNKISI == <<78, 75, 73, 83, 73>>
\* "10="
Needle10 == <<49, 48, 61>>
\* "nan", "inf", "infinity" in lower case
LitNan == <<110, 97, 110>>
LitInf == <<105, 110, 102>>
LitInfinity == <<105, 110, 102, 105, 110, 105, 116, 121>>

\* the model's only non-ASCII byte is BADBYTE, which no valid UTF-8 text holds
IsUtf8(s) == \A k \in 1..Len(s) : s[k] < 128

AllDigits(s) == \A k \in 1..Len(s) : IsDigit(s[k])

\* ASCII lower case of a byte string (eq_ignore_ascii_case)
Lower(s) == [k \in 1..Len(s) |-> IF s[k] >= 65 /\ s[k] <= 90 THEN s[k] + 32 ELSE s[k]]

\* str::parse::<i32>(): an optional sign, then one or more digits, in range
ParseI32(s) ==
    LET signed == Len(s) > 0 /\ s[1] \in {MINUS, PLUS}
        neg == Len(s) > 0 /\ s[1] = MINUS
        ds == IF signed THEN Tail(s) ELSE s
        nz == LET lead == {k \in 1..Len(ds) : \A m \in 1..k : ds[m] = ZERO}
              IN  SubSeq(ds, Cardinality(lead) + 1, Len(ds))
    IN  IF Len(ds) = 0 \/ ~AllDigits(ds) THEN None
        ELSE IF Len(nz) > 10 THEN None
        ELSE IF Len(nz) = 10 /\ DecimalValue(SubSeq(nz, 1, 9)) > I32_MAX \div 10
             THEN None
        ELSE IF Len(nz) = 10 /\ DecimalValue(SubSeq(nz, 1, 9)) = I32_MAX \div 10
                /\ nz[10] - ZERO > (IF neg THEN 8 ELSE 7)
             THEN None
        ELSE IF neg /\ Len(nz) = 10 /\ nz[10] - ZERO = 8
                /\ DecimalValue(SubSeq(nz, 1, 9)) = I32_MAX \div 10
             THEN Some(-I32_MAX - 1)
        ELSE Some(IF neg THEN -DecimalValue(nz) ELSE DecimalValue(nz))

\* An f32 of the model: a decimal num / 10^scale with its sign, an infinity
\* or NaN.  Decimal literals are kept exact (no rounding to 24 bits) and the
\* exponent form (1e3) is outside the model's inputs.
Fin(neg, num, scale) == [kind |-> "fin", neg |-> neg, num |-> num, scale |-> scale]
Inf(neg) == [kind |-> "inf", neg |-> neg, num |-> 0, scale |-> 0]
NaN == [kind |-> "nan", neg |-> FALSE, num |-> 0, scale |-> 0]

RECURSIVE Pow10(_)
Pow10(k) == IF k = 0 THEN 1 ELSE 10 * Pow10(k - 1)

\* a < b on f32; every comparison with NaN is false
FLess(a, b) ==
    IF a.kind = "nan" \/ b.kind = "nan" THEN FALSE
    ELSE IF a.kind = "inf" THEN a.neg /\ ~(b.kind = "inf" /\ b.neg)
    ELSE IF b.kind = "inf" THEN ~b.neg
    ELSE (IF a.neg THEN -a.num ELSE a.num) * Pow10(b.scale)
            < (IF b.neg THEN -b.num ELSE b.num) * Pow10(a.scale)

\* f32::clamp: if self < min { min } else if self > max { max } else { self }
clamp(x, min, max) ==
    LET x1 == IF FLess(x, min) THEN min ELSE x
    IN  IF FLess(max, x1) THEN max ELSE x1

\* str::parse::<f32>(): [+-] then digits [. digits] with at least one digit,
\* or nan / inf / infinity in any case
ParseF32(s) ==
    LET signed == Len(s) > 0 /\ s[1] \in {MINUS, PLUS}
        neg == Len(s) > 0 /\ s[1] = MINUS
        body == IF signed THEN Tail(s) ELSE s
        dots == {k \in 1..Len(body) : body[k] = DOT}
        dot == IF dots = {} THEN Len(body) + 1 ELSE CHOOSE k \in dots : TRUE
        ip == SubSeq(body, 1, dot - 1)
        fp == SubSeq(body, dot + 1, Len(body))
    IN  IF Len(body) = 0 THEN None
        ELSE IF Lower(body) = LitNan THEN Some(NaN)
        ELSE IF Lower(body) \in {LitInf, LitInfinity} THEN Some(Inf(neg))
        ELSE IF Cardinality(dots) > 1 \/ ~AllDigits(ip) \/ ~AllDigits(fp)
                \/ Len(ip) + Len(fp) = 0
             THEN None
        ELSE Some(Fin(neg, DecimalValue(ip \o fp), Len(fp)))

\* "YYYY-MM-DDTHH:MM:SSZ", the one RFC3339 shape among the model's inputs
ParseRfc3339(s) ==
    LET num(a, b) == DecimalValue(SubSeq(s, a, b))
    IN  IF Len(s) = 20
           /\ \A k \in {1, 2, 3, 4, 6, 7, 9, 10, 12, 13, 15, 16, 18, 19} : IsDigit(s[k])
           /\ s[5] = MINUS /\ s[8] = MINUS /\ s[11] \in {84, 116}
           /\ s[14] = 58 /\ s[17] = 58 /\ s[20] \in {90, 122}
           /\ num(6, 7) \in 1..12 /\ num(9, 10) \in 1..31
           /\ num(12, 13) < 24 /\ num(15, 16) < 60 /\ num(18, 19) < 60
        THEN Some(<<num(1, 4), num(6, 7), num(9, 10),
                    num(12, 13), num(15, 16), num(18, 19)>>)
        ELSE None

RECURSIVE SplitSOH(_)
\* raw.split(|b| *b == SOH): the pieces between delimiters, empty ones kept
SplitSOH(raw) ==
    LET j == NextSOH(raw, 0)
    IN  IF j >= Len(raw) THEN <<raw>>
        ELSE <<Slice(raw, 0, j)>> \o SplitSOH(Slice(raw, j + 1, Len(raw)))

\* field.iter().position(|b| *b == b'=')
PositionEq(field) ==
    LET eqs == {k \in 0..(Len(field) - 1) : At(field, k) = EQ}
    IN  IF eqs = {} THEN None ELSE Some(CHOOSE k \in eqs : \A m \in eqs : k <= m)

\* an insert that keeps the value a key already has
MapInsert_first(map, key, val) ==
    [k \in DOMAIN map \cup {key} |-> IF k \in DOMAIN map THEN map[k] ELSE val]

\* HashMap::insert
MapInsert(map, key, val) ==
    [k \in DOMAIN map \cup {key} |-> IF k = key THEN val ELSE map[k]]

\* HashMap::get
MapGet(map, key) == IF key \in DOMAIN map THEN Some(map[key]) ELSE None

RECURSIVE BuildMap_skip(_, _, _)
\* a loop that skips a field it cannot read and goes on with the next
BuildMap_skip(fields, k, map) ==
    IF k > Len(fields) THEN Some(map)
    ELSE LET field == fields[k]
             eq == PositionEq(field)
         IN  IF Len(field) = 0 \/ ~eq.some THEN BuildMap_skip(fields, k + 1, map)
             ELSE LET kb == Slice(field, 0, eq.val)
                      vb == Slice(field, eq.val + 1, Len(field))
                      key == IF IsUtf8(kb) THEN ParseI32(kb) ELSE None
                  IN  IF ~key.some \/ ~IsUtf8(vb) THEN BuildMap_skip(fields, k + 1, map)
                      ELSE BuildMap_skip(fields, k + 1, MapInsert(map, key.val, vb))

RECURSIVE BuildMap(_, _, _)
\* the for loop of parse_fix_spike from field k on: None when a `?` returns
BuildMap(fields, k, map) ==
    IF k > Len(fields) THEN Some(map)
    ELSE LET field == fields[k]
             eq == PositionEq(field)
         IN  IF Len(field) = 0 \/ ~eq.some THEN BuildMap(fields, k + 1, map)
             ELSE LET kb == Slice(field, 0, eq.val)
                      vb == Slice(field, eq.val + 1, Len(field))
                      key == IF IsUtf8(kb) THEN ParseI32(kb) ELSE None
                  IN  IF ~key.some \/ ~IsUtf8(vb) THEN None
                      ELSE BuildMap(fields, k + 1, MapInsert(map, key.val, vb))

EmptyMap == [k \in {} |-> <<>>]

\* the decoder without its check of tag 55
SpikeFromMap_any_symbol(map) ==
    LET msg_type == MapGet(map, 35)
        who == MapGet(map, 448)
        xs == MapGet(map, 6010)
        ys == MapGet(map, 6011)
        x == IF xs.some THEN ParseF32(xs.val) ELSE None
        y == IF ys.some THEN ParseF32(ys.val) ELSE None
        t == MapGet(map, 60)
    IN  IF ~msg_type.some THEN None
        ELSE IF msg_type.val # MsgTypeU1 THEN None
        ELSE IF ~who.some \/ ~x.some \/ ~y.some THEN None
        ELSE Some([pos |-> <<clamp(x.val, Fin(FALSE, 0, 0), Fin(FALSE, FIGURE_W, 0)),
                             clamp(y.val, Fin(FALSE, 0, 0), Fin(FALSE, FIGURE_H, 0))>>,
                   who |-> who.val,
                   message |-> MapGet(map, 58),
                   when |-> IF t.some THEN ParseRfc3339(t.val) ELSE None])

\* a decoder for which a timestamp that does not parse is an error
SpikeFromMap_strict_time(map) ==
    LET msg_type == MapGet(map, 35)
        who == MapGet(map, 448)
        xs == MapGet(map, 6010)
        ys == MapGet(map, 6011)
        x == IF xs.some THEN ParseF32(xs.val) ELSE None
        y == IF ys.some THEN ParseF32(ys.val) ELSE None
        t == MapGet(map, 60)
    IN  IF ~msg_type.some THEN None
        ELSE IF msg_type.val # MsgTypeU1 THEN None
        ELSE IF MapGet(map, 55) # Some(SymbolNKISI) THEN None
        ELSE IF ~who.some \/ ~x.some \/ ~y.some THEN None
        ELSE IF t.some /\ ~ParseRfc3339(t.val).some THEN None
        ELSE Some([pos |-> <<clamp(x.val, Fin(FALSE, 0, 0), Fin(FALSE, FIGURE_W, 0)),
                             clamp(y.val, Fin(FALSE, 0, 0), Fin(FALSE, FIGURE_H, 0))>>,
                   who |-> who.val,
                   message |-> MapGet(map, 58),
                   when |-> IF t.some THEN ParseRfc3339(t.val) ELSE None])

SpikeFromMap(map) ==
    LET msg_type == MapGet(map, 35)
        who == MapGet(map, 448)
        xs == MapGet(map, 6010)
        ys == MapGet(map, 6011)
        x == IF xs.some THEN ParseF32(xs.val) ELSE None
        y == IF ys.some THEN ParseF32(ys.val) ELSE None
        t == MapGet(map, 60)
    IN  IF ~msg_type.some THEN None
        ELSE IF msg_type.val # MsgTypeU1 THEN None
        ELSE IF MapGet(map, 55) # Some(SymbolNKISI) THEN None
        ELSE IF ~who.some \/ ~x.some \/ ~y.some THEN None
        ELSE Some([pos |-> <<clamp(x.val, Fin(FALSE, 0, 0), Fin(FALSE, FIGURE_W, 0)),
                             clamp(y.val, Fin(FALSE, 0, 0), Fin(FALSE, FIGURE_H, 0))>>,
                   who |-> who.val,
                   message |-> MapGet(map, 58),
                   when |-> IF t.some THEN ParseRfc3339(t.val) ELSE None])

\* a decoder that accepts a frame only when its tag 10 is the checksum of
\* the bytes before the trailer
parse_fix_spike_checked(raw) ==
    LET map == BuildMap(SplitSOH(raw), 1, EmptyMap)
    IN  IF ~map.some THEN None
        ELSE IF MapGet(map.val, 10)
                    # Some(Format03(checksum(Slice(raw, 0, Len(raw) - 7))))
             THEN None
        ELSE SpikeFromMap(map.val)

parse_fix_spike(raw) ==
    LET map == BuildMap(SplitSOH(raw), 1, EmptyMap)
    IN  IF ~map.some THEN None ELSE SpikeFromMap(map.val)

\* ------------------------------------------------------------ reassembler
\* buf[i..i + 3] == b"10="
IsNeedle10At(buf, i) ==
    /\ At(buf, i) = Needle10[1] /\ At(buf, i + 1) = Needle10[2]
    /\ At(buf, i + 2) = Needle10[3]

\* a scan that stops one position early: while i + 4 < buf.len()
find_fix_end_short(buf) ==
    LET found == {i \in 0..(Len(buf) - 5) :
                     IsNeedle10At(buf, i) /\ NextSOH(buf, i + 3) < Len(buf)}
    IN  IF found = {} THEN None ELSE Some(NextSOH(buf, Least(found) + 3))

\* The scan of find_fix_end: the first i with i + 3 < buf.len() where "10="
\* starts and a delimiter follows at some j >= i + 3; that j is returned.
find_fix_end(buf) ==
    LET found == {i \in 0..(Len(buf) - 4) :
                     IsNeedle10At(buf, i) /\ NextSOH(buf, i + 3) < Len(buf)}
    IN  IF found = {} THEN None ELSE Some(NextSOH(buf, Least(found) + 3))

\* ------------------------------------------------------------------ state
VARIABLES
    listener,     \* the acceptor thread: "idle", "listening" or "panicked"
    peer,         \* per connection: what its peer writes, [order, n] (n frames)
    conn,         \* per connection: "none", "serving" (a worker runs) or "closed"
    wire,         \* per connection: the bytes the peer wrote that are not read yet
    acc,          \* per worker: the accumulator
    pc,           \* per worker: "read" (blocked in stream.read) or "scan" (the while let loop)
    rd,           \* per connection: all bytes read so far, in order (history)
    reads,        \* per connection: reads that returned data: 0, 1, or 2 for two or more
    frames,       \* per connection: the frames drained so far (history)
    chan,         \* the unbounded channel, oldest first
    ui_pc,        \* the consumer: "idle" or "polling" (inside PollExternal)
    recv,         \* the channel items the consumer has received (history)
    pins,         \* state.nkisi.pins
    events,       \* state.nkisi.events
    last_cursor,  \* state.last_cursor: None or Some(<<x, y>>) in screen pixels
    pending_pos,  \* state.pending_pos: None or Some(<<x, y>>) in figure coordinates
    striker_input,  \* state.striker_input
    message_input,  \* state.message_input
    enc_in,       \* the client's arguments and whether it panicked, None before it ran
    out,          \* the client's message buffer
    given,        \* the field values raw was built from (option per tag)
    raw,          \* the frame handed to the decoder
    spike         \* Some(the decoder's answer for raw), None before it ran

srvVars == <<listener, peer, conn, wire, acc, pc, rd, reads, frames>>
formVars == <<last_cursor, pending_pos, striker_input, message_input>>
uiVars == <<ui_pc, recv, pins, events, formVars>>
encVars == <<enc_in, out>>
decVars == <<given, raw, spike>>
vars == <<srvVars, chan, uiVars, encVars, decVars>>

\* ----------------------------------------------------------------- bounds
\* frames the peers of the full system write, all connections together
MaxFrames == 3
\* a short read of the full system returns this many bytes
ChunkLen == 50
\* let buf = vec![0u8; 8192]
BUF_SIZE == 8192

\* the connections the acceptor is offered: two, the least that interleave
Conns == {1, 2}

\* ------------------------------------------------------------ the channel
\* a channel that hands out the newest item first
tx_send_lifo(q, item) == <<item>> \o q

\* tx.send(spike) on the unbounded channel
tx_send(q, item) == Append(q, item)

\* a channel with room for one event: a send on a full channel waits
can_send_one(q) == Len(q) < 1

\* unbounded(): the channel always has room, tx.send never waits
can_send(q) == TRUE

\* lines 461-463: decode one drained frame and send the event, if any
Publish(q, c, msg) ==
    LET s == parse_fix_spike(msg)
    IN  IF s.some THEN tx_send(q, [src |-> c, spike |-> s.val]) ELSE q

\* ----------------------------------------------------------- the acceptor
\* TcpListener::bind succeeds
Bind ==
    /\ listener = "idle"
    /\ listener' = "listening"
    /\ UNCHANGED <<peer, conn, wire, acc, pc, rd, reads, frames, chan,
                   uiVars, encVars, decVars>>

\* TcpListener::bind fails: expect() panics the acceptor thread
BindFail ==
    /\ listener = "idle"
    /\ listener' = "panicked"
    /\ UNCHANGED <<peer, conn, wire, acc, pc, rd, reads, frames, chan,
                   uiVars, encVars, decVars>>

\* listener.incoming() yields Ok(s): a worker is spawned for a peer that
\* writes `bytes` on the connection
Connect(c, bytes) ==
    /\ listener = "listening"
    /\ conn[c] = "none"
    /\ conn' = [conn EXCEPT ![c] = "serving"]
    /\ wire' = [wire EXCEPT ![c] = bytes]
    /\ UNCHANGED <<listener, acc, pc, rd, reads, frames, chan,
                   uiVars, encVars, decVars>>

\* listener.incoming() yields Err(e): logged, the loop goes on
AcceptErr ==
    /\ listener = "listening"
    /\ UNCHANGED <<listener, peer, conn, wire, acc, pc, rd, reads, frames, chan,
                   uiVars, encVars, decVars>>

\* ------------------------------------------------------------- the worker
\* a read that forgets what the accumulator held
Read_overwrite(c, n) ==
    /\ conn[c] = "serving" /\ pc[c] = "read"
    /\ n >= 1 /\ n <= Len(wire[c]) /\ n <= BUF_SIZE
    /\ acc' = [acc EXCEPT ![c] = SubSeq(wire[c], 1, n)]
    /\ rd' = [rd EXCEPT ![c] = @ \o SubSeq(wire[c], 1, n)]
    /\ reads' = [reads EXCEPT ![c] = IF @ = 0 THEN 1 ELSE 2]
    /\ wire' = [wire EXCEPT ![c] = SubSeq(@, n + 1, Len(@))]
    /\ pc' = [pc EXCEPT ![c] = "scan"]
    /\ UNCHANGED <<listener, peer, conn, frames, chan,
                   uiVars, encVars, decVars>>

\* stream.read returns Ok(n), n > 0
Read(c, n) ==
    /\ conn[c] = "serving" /\ pc[c] = "read"
    /\ n >= 1 /\ n <= Len(wire[c]) /\ n <= BUF_SIZE
    /\ acc' = [acc EXCEPT ![c] = @ \o SubSeq(wire[c], 1, n)]
    /\ rd' = [rd EXCEPT ![c] = @ \o SubSeq(wire[c], 1, n)]
    /\ reads' = [reads EXCEPT ![c] = IF @ = 0 THEN 1 ELSE 2]
    /\ wire' = [wire EXCEPT ![c] = SubSeq(@, n + 1, Len(@))]
    /\ pc' = [pc EXCEPT ![c] = "scan"]
    /\ UNCHANGED <<listener, peer, conn, frames, chan,
                   uiVars, encVars, decVars>>

\* a turn whose drain takes one byte more than the frame
Frame_drop_next(c) ==
    /\ conn[c] = "serving" /\ pc[c] = "scan"
    /\ LET end_idx == find_fix_end(acc[c])
       IN  IF end_idx.some
           THEN LET msg == Slice(acc[c], 0, end_idx.val + 1)
                IN  /\ acc' = [acc EXCEPT ![c] =
                               IF end_idx.val + 2 <= Len(@)
                               THEN Slice(@, end_idx.val + 2, Len(@)) ELSE <<>>]
                    /\ frames' = [frames EXCEPT ![c] = Append(@, msg)]
                    /\ chan' = Publish(chan, c, msg)
                    /\ pc' = pc
           ELSE /\ pc' = [pc EXCEPT ![c] = "read"]
                /\ UNCHANGED <<acc, frames, chan>>
    /\ UNCHANGED <<listener, peer, conn, wire, rd, reads,
                   uiVars, encVars, decVars>>

\* the next turn of the loop would send an event
WouldSend(c) ==
    LET end_idx == find_fix_end(acc[c])
    IN  end_idx.some /\ parse_fix_spike(Slice(acc[c], 0, end_idx.val + 1)).some

\* the worker is inside the while let loop and its next turn can run: a turn
\* that sends needs the channel to take the event
FrameGuard(c) ==
    /\ conn[c] = "serving" /\ pc[c] = "scan"
    /\ can_send(chan) \/ ~WouldSend(c)

\* one turn of `while let Some(end_idx) = find_fix_end(&acc)`
Frame(c) ==
    /\ FrameGuard(c)
    /\ LET end_idx == find_fix_end(acc[c])
       IN  IF end_idx.some
           THEN LET msg == Slice(acc[c], 0, end_idx.val + 1)
                IN  /\ acc' = [acc EXCEPT ![c] = Slice(@, end_idx.val + 1, Len(@))]
                    /\ frames' = [frames EXCEPT ![c] = Append(@, msg)]
                    /\ chan' = Publish(chan, c, msg)
                    /\ pc' = pc
           ELSE /\ pc' = [pc EXCEPT ![c] = "read"]
                /\ UNCHANGED <<acc, frames, chan>>
    /\ UNCHANGED <<listener, peer, conn, wire, rd, reads,
                   uiVars, encVars, decVars>>

\* stream.read returns Ok(0): the peer closed, the worker ends
Close(c) ==
    /\ conn[c] = "serving" /\ pc[c] = "read"
    /\ wire[c] = <<>>
    /\ conn' = [conn EXCEPT ![c] = "closed"]
    /\ UNCHANGED <<listener, peer, wire, acc, pc, rd, reads, frames, chan,
                   uiVars, encVars, decVars>>

\* a read error that ends every worker, not only the one that met it
ReadErr_all(c) ==
    /\ conn[c] = "serving" /\ pc[c] = "read"
    /\ conn' = [d \in Conns |-> IF conn[d] = "serving" THEN "closed" ELSE conn[d]]
    /\ UNCHANGED <<listener, peer, wire, acc, pc, rd, reads, frames, chan,
                   uiVars, encVars, decVars>>

\* stream.read returns Err(e): logged, the worker ends
ReadErr(c) ==
    /\ conn[c] = "serving" /\ pc[c] = "read"
    /\ conn' = [conn EXCEPT ![c] = "closed"]
    /\ UNCHANGED <<listener, peer, wire, acc, pc, rd, reads, frames, chan,
                   uiVars, encVars, decVars>>

\* ----------------------------------------------------------- the consumer
\* the 200 ms timer delivers Message::PollExternal
PollStart ==
    /\ ui_pc = "idle"
    /\ ui_pc' = "polling"
    /\ UNCHANGED <<srvVars, chan, recv, pins, events, formVars, encVars, decVars>>

\* a receive that takes two queued spikes off the channel and records the first
PollRecv_skip ==
    /\ ui_pc = "polling"
    /\ chan # <<>>
    /\ LET item == Head(chan)
       IN  /\ recv' = Append(recv, item)
           /\ pins' = Append(pins, item.spike.pos)
           /\ events' = Append(events,
                  [date |-> [now |-> ~item.spike.when.some, at |-> item.spike.when],
                   performed_by |-> item.spike.who,
                   purpose |-> "External FIX spike",
                   notes |-> item.spike.message,
                   pos |-> item.spike.pos])
    /\ chan' = IF Len(chan) >= 2 THEN Tail(Tail(chan)) ELSE Tail(chan)
    /\ UNCHANGED <<srvVars, ui_pc, formVars, encVars, decVars>>

\* try_recv() returns Ok(spike): one pin and one event are pushed
PollRecv ==
    /\ ui_pc = "polling"
    /\ chan # <<>>
    /\ LET item == Head(chan)
       IN  /\ recv' = Append(recv, item)
           /\ pins' = Append(pins, item.spike.pos)
           /\ events' = Append(events,
                  [date |-> [now |-> ~item.spike.when.some, at |-> item.spike.when],
                   performed_by |-> item.spike.who,
                   purpose |-> "External FIX spike",
                   notes |-> item.spike.message,
                   pos |-> item.spike.pos])
    /\ chan' = Tail(chan)
    /\ UNCHANGED <<srvVars, ui_pc, formVars, encVars, decVars>>

\* try_recv() returns Err(Empty): the update ends
PollEnd ==
    /\ ui_pc = "polling"
    /\ chan = <<>>
    /\ ui_pc' = "idle"
    /\ UNCHANGED <<srvVars, chan, recv, pins, events, formVars, encVars, decVars>>

\* ------------------------------------------------- the confirmation form
\* const SCREEN_W: f32 = 360.0; SCREEN_H = SCREEN_W * (FIGURE_H / FIGURE_W)
SCREEN_W == 360
SCREEN_H == (SCREEN_W * FIGURE_H) \div FIGURE_W

\* (v / screen) * figure for a pixel coordinate v; the model's cursor points
\* are ones for which the quotient is a whole number
ToFigure(v, screen, figure) ==
    IF v < 0 THEN Fin(TRUE, ((-v) * figure) \div screen, 0)
    ELSE Fin(FALSE, (v * figure) \div screen, 0)

\* str::trim for texts whose only white space is the blank
Trim(t) ==
    LET inked == {k \in 1..Len(t) : t[k] # 32}
    IN  IF inked = {} THEN <<>>
        ELSE SubSeq(t, Least(inked), CHOOSE k \in inked : \A m \in inked : m <= k)

\* Message::CursorMoved(p)
CursorMoved(p) ==
    /\ ui_pc = "idle"
    /\ last_cursor' = Some(p)
    /\ UNCHANGED <<srvVars, chan, ui_pc, recv, pins, events,
                   pending_pos, striker_input, message_input, encVars, decVars>>

\* Message::ProposeSpike: the cursor scaled to figure coordinates and clamped
ProposeSpike ==
    /\ ui_pc = "idle"
    /\ pending_pos' =
           IF last_cursor.some
           THEN Some(<<clamp(ToFigure(last_cursor.val[1], SCREEN_W, FIGURE_W),
                             Fin(FALSE, 0, 0), Fin(FALSE, FIGURE_W, 0)),
                       clamp(ToFigure(last_cursor.val[2], SCREEN_H, FIGURE_H),
                             Fin(FALSE, 0, 0), Fin(FALSE, FIGURE_H, 0))>>)
           ELSE pending_pos
    /\ UNCHANGED <<srvVars, chan, ui_pc, recv, pins, events,
                   last_cursor, striker_input, message_input, encVars, decVars>>

\* Message::ConfirmSpike: with a pending position and a striker name, one pin
\* and one event are pushed and the message input is cleared
ConfirmSpike ==
    /\ ui_pc = "idle"
    /\ LET who == Trim(striker_input)
       IN  IF pending_pos.some /\ who # <<>>
           THEN /\ pins' = Append(pins, pending_pos.val)
                /\ events' = Append(events,
                       [date |-> [now |-> TRUE, at |-> None],
                        performed_by |-> who,
                        purpose |-> "Manual spike",
                        notes |-> IF Trim(message_input) = <<>> THEN None
                                  ELSE Some(message_input),
                        pos |-> pending_pos.val])
                /\ pending_pos' = None
                /\ message_input' = <<>>
           ELSE UNCHANGED <<pins, events, pending_pos, message_input>>
    /\ UNCHANGED <<srvVars, chan, ui_pc, recv, last_cursor, striker_input,
                   encVars, decVars>>

\* Message::CancelSpike
CancelSpike ==
    /\ ui_pc = "idle"
    /\ pending_pos' = None
    /\ UNCHANGED <<srvVars, chan, ui_pc, recv, pins, events,
                   last_cursor, striker_input, message_input, encVars, decVars>>

\* Message::StrikerChanged(t)
StrikerChanged(t) ==
    /\ ui_pc = "idle"
    /\ striker_input' = t
    /\ UNCHANGED <<srvVars, chan, ui_pc, recv, pins, events,
                   last_cursor, pending_pos, message_input, encVars, decVars>>

\* Message::SpikeMessageChanged(t)
SpikeMessageChanged(t) ==
    /\ ui_pc = "idle"
    /\ message_input' = t
    /\ UNCHANGED <<srvVars, chan, ui_pc, recv, pins, events,
                   last_cursor, pending_pos, striker_input, encVars, decVars>>

\* ------------------------------------------------------------- the client
\* fixclient's main up to build_spike_message
ClientBuild(spike_id, who, note, ts) ==
    /\ ~enc_in.some
    /\ LET built == build_spike_message(spike_id, who, note, ts)
       IN  /\ enc_in' = Some([spike_id |-> spike_id, who |-> who, note |-> note,
                               ts |-> ts, panic |-> built.panic])
           /\ out' = built.out
    /\ UNCHANGED <<srvVars, chan, uiVars, decVars>>

\* TcpStream::connect and write_all(&msg), accepted as connection c
ClientSend(c) ==
    /\ enc_in.some /\ ~enc_in.val.panic
    /\ Connect(c, out)
    /\ UNCHANGED peer

\* ------------------------------------------------------------ the decoder
\* parse_fix_spike applied to raw, and the send of lines 461-463
Decode ==
    /\ ~spike.some
    /\ spike' = Some(parse_fix_spike(raw))
    /\ chan' = Publish(chan, 1, raw)
    /\ UNCHANGED <<srvVars, uiVars, encVars, given, raw>>

\* ----------------------------------------------------------------- inputs
\* The tag dictionary of the acceptor: 35=U1, 55=NKISI, 448=who, 58=text,
\* 60=time, 6010=x, 6011=y; 10 is the checksum trailer.
\* "20261104-13:21:00" (SendingTime) and "2026-11-04T13:21:00Z" (TransactTime)
SendingTime == <<50, 48, 50, 54, 49, 49, 48, 52, 45, 49, 51, 58, 50, 49, 58, 48, 48>>
TransactTime == <<50, 48, 50, 54, 45, 49, 49, 45, 48, 52, 84, 49, 51, 58, 50, 49, 58, 48, 48, 90>>
\* "hi", "5", "7"
TextHi == <<104, 105>>
PosFive == <<53>>
PosSeven == <<55>>

RECURSIVE EncodeFields(_, _)
\* the bytes of a sequence of <<tag, value>> fields, each with its delimiter
EncodeFields(buf, fields) ==
    IF Len(fields) = 0 THEN buf
    ELSE EncodeFields(push_fix_field(buf, fields[1][1], fields[1][2]), Tail(fields))

\* a frame: the fields, then the checksum trailer 10=<3 digits>
WithTrailer(body) == push_fix_field(body, 10, Format03(checksum(body)))

SpikeValue(tag, who, x, y) ==
    CASE tag = 35 -> MsgTypeU1
      [] tag = 55 -> SymbolNKISI
      [] tag = 448 -> who
      [] tag = 6010 -> x
      [] tag = 6011 -> y
      [] tag = 58 -> TextHi
      [] tag = 60 -> TransactTime

\* a valid spike frame with its fields in the given order
SpikeFrame(order, who, x, y) ==
    WithTrailer(EncodeFields(<<>>,
        [k \in 1..Len(order) |-> <<order[k], SpikeValue(order[k], who, x, y)>>]))

\* the event a valid spike frame stands for
SpikeOf(order, who, x, y) ==
    [pos |-> <<ParseF32(x).val, ParseF32(y).val>>,
     who |-> who,
     message |-> IF \E k \in 1..Len(order) : order[k] = 58 THEN Some(TextHi) ELSE None,
     when |-> IF \E k \in 1..Len(order) : order[k] = 60
              THEN ParseRfc3339(TransactTime) ELSE None]

\* field orders: the dictionary's, and one with 6010 as the last field
\* before the trailer
OrderDict == <<35, 55, 448, 58, 6010, 6011>>
OrderXLast == <<35, 55, 448, 6011, 6010>>
Orders == {OrderDict, OrderXLast}

\* the k-th frame on a connection names its actor "a", "b", ...
WhoOf(k) == <<96 + k>>

RECURSIVE StreamOf(_, _)
\* k valid spike frames in the same field order, concatenated
StreamOf(order, k) ==
    IF k = 0 THEN <<>>
    ELSE StreamOf(order, k - 1) \o SpikeFrame(order, WhoOf(k), PosFive, PosSeven)

RECURSIVE SpikesOf(_, _)
SpikesOf(order, k) ==
    IF k = 0 THEN <<>>
    ELSE Append(SpikesOf(order, k - 1), SpikeOf(order, WhoOf(k), PosFive, PosSeven))

\* what a peer writes: n frames in one field order (n = 0: nothing known)
NoPeer == [order |-> <<>>, n |-> 0]

\* "19991231-23:59:59"
SendingTimeOld == <<49, 57, 57, 57, 49, 50, 51, 49, 45, 50, 51, 58, 53, 57, 58, 53, 57>>

\* the client's arguments: spike ids (u32, within TLC's integers), and for
\* the actor and the note short texts over 'a', '9', '=' and the delimiter,
\* and one long text each
SpikeIds == {7, 2147483647}
TextBytes == {97, 57, EQ, SOH}
MaxWhoLen == 2
MaxNoteLen == 1
LongWhoLen == 60
LongNoteLen == 1000
TextsUpTo(n) == UNION {[1..k -> TextBytes] : k \in 0..n}
\* <<spike id, actor, note, time>>: every short combination, the long texts,
\* and another id and time
ClientArgs ==
    (SpikeIds \X TextsUpTo(MaxWhoLen) \X TextsUpTo(MaxNoteLen) \X {SendingTime})
        \cup {<<7, Repeat(97, LongWhoLen), <<98>>, SendingTime>>,
              <<7, <<97>>, Repeat(98, LongNoteLen), SendingTime>>,
              <<0, <<97>>, <<98>>, SendingTimeOld>>}

\* a value the field codec can carry: no delimiter and no '='
ValidValue(v) == \A k \in 1..Len(v) : v[k] # SOH /\ v[k] # EQ

\* The decoder's frames: for each tag of the dictionary, in the dictionary's
\* order, the field is absent (None) or carries one of these values.
\* "X", "", "150", "-10", "NaN", "x", "7.5", "inf", "bad"
SymbolX == <<88>>
Empty == <<>>
Pos150 == <<49, 53, 48>>
PosMinus10 == <<45, 49, 48>>
PosNaN == <<78, 97, 78>>
PosLetter == <<120>>
PosHalf == <<55, 46, 53>>
PosInf == <<105, 110, 102>>
TimeBad == <<98, 97, 100>>

Opt(S) == {None} \cup {Some(v) : v \in S}

DecTags == <<35, 55, 448, 6010, 6011, 58, 60>>

DecChoices ==
    Opt({MsgTypeU1, MsgTypeSPK}) \X Opt({SymbolNKISI, SymbolX})
        \X Opt({WhoOf(1), Empty})
        \X Opt({PosFive, Pos150, PosMinus10, PosNaN, PosLetter, PosHalf, PosInf})
        \X Opt({PosSeven, Pos150, PosMinus10, PosNaN, PosLetter})
        \X Opt({TextHi}) \X Opt({TransactTime, TimeBad})

\* the texts among the position values that are float literals
FloatTexts == {PosFive, PosSeven, Pos150, PosMinus10, PosNaN, PosHalf, PosInf}

RECURSIVE PresentFields(_, _)
\* the <<tag, value>> fields of a choice from tag k on, absent ones left out
PresentFields(ch, k) ==
    IF k > Len(DecTags) THEN <<>>
    ELSE (IF ch[k].some THEN <<<<DecTags[k], ch[k].val>>>> ELSE <<>>)
             \o PresentFields(ch, k + 1)

FrameOfChoice(ch) == WithTrailer(EncodeFields(<<>>, PresentFields(ch, 1)))

\* One more field, <<left side, right side>> of its '=', put in front of a
\* frame's fields or after them (before the trailer).
\* Fields the decoder cannot read: "x=1", "=1", "4a=1", "99999999999=1" (no
\* i32), and a byte that is not UTF-8 on the left or on the right.
MalformedFields ==
    {<<<<120>>, <<49>>>>, <<<<>>, <<49>>>>, <<<<52, 97>>, <<49>>>>,
     <<<<57, 57, 57, 57, 57, 57, 57, 57, 57, 57, 57>>, <<49>>>>,
     <<<<BADBYTE>>, <<49>>>>, <<<<55>>, <<BADBYTE>>>>}

\* fields of a tag the decoder does not use: "7=1", "+7=1", "7=a=b"
UnusedFields ==
    {<<<<55>>, <<49>>>>, <<<<PLUS, 55>>, <<49>>>>, <<<<55>>, <<97, EQ, 98>>>>}

\* a second field for a tag of the dictionary: "448=b", "35=SPK", "35=U1",
\* "035=SPK", "55=X", "55=NKISI", "6010=150", "6011=x", "58=yo", "60=bad"
RepeatedFields ==
    {<<ToDecimal(448), WhoOf(2)>>, <<ToDecimal(35), MsgTypeSPK>>,
     <<ToDecimal(35), MsgTypeU1>>, <<<<ZERO>> \o ToDecimal(35), MsgTypeSPK>>,
     <<ToDecimal(55), SymbolX>>, <<ToDecimal(55), SymbolNKISI>>,
     <<ToDecimal(6010), Pos150>>, <<ToDecimal(6011), PosLetter>>,
     <<ToDecimal(58), <<121, 111>>>>, <<ToDecimal(60), TimeBad>>}

ExtraFields == MalformedFields \cup UnusedFields \cup RepeatedFields

\* the frames the extra field is added to
BaseChoices ==
    {Some(MsgTypeU1), Some(MsgTypeSPK)} \X {Some(SymbolNKISI), Some(SymbolX)}
        \X {Some(WhoOf(1))} \X {Some(PosFive)} \X {Some(PosSeven)}
        \X Opt({TextHi}) \X Opt({TransactTime})

\* the bytes of one field as they stand on the wire
RawField(f) == f[1] \o <<EQ>> \o f[2] \o <<SOH>>

\* a frame of the dictionary's fields with the extra field in front or at the back
FrameWithExtra(ch, f, at) ==
    LET body == EncodeFields(<<>>, PresentFields(ch, 1))
    IN  WithTrailer(IF at = "front" THEN RawField(f) \o body
                                     ELSE body \o RawField(f))

\* The integrity fields of a frame: 9=<value> in front of the dictionary's
\* fields and 10=<value> after them, each present or not.
\* the dictionary's fields of a choice, on the wire
BodyOf(ch) == EncodeFields(<<>>, PresentFields(ch, 1))

\* the values a correct sender writes: the body's length, and the checksum of
\* all bytes before the trailer
RightLen(ch) == ToDecimal(Len(BodyOf(ch)))
RightSum(prefix) == Format03(checksum(prefix))

\* "000", "abc"
WrongDigits == <<48, 48, 48>>
Letters == <<97, 98, 99>>

\* the bytes in front of the trailer: the body-length field, if any, and the body
BeforeSum(ch, len9) ==
    (IF len9.some THEN RawField(<<ToDecimal(9), len9.val>>) ELSE <<>>) \o BodyOf(ch)

FrameWithIntegrity(ch, len9, sum10) ==
    BeforeSum(ch, len9)
        \o (IF sum10.some THEN RawField(<<ToDecimal(10), sum10.val>>) ELSE <<>>)

\* what the user does: a cursor point inside the figure and one outside it,
\* for the striker a blank or "z", for the message "m" (both start empty)
CursorPoints == {<<180, 540>>, <<720, -54>>}
StrikerTexts == {<<32>>, <<122>>}
MessageTexts == {<<109>>}

\* spikes the user confirms by hand
MaxManual == 1

\* pieces of an arbitrary byte stream: "10=", the delimiter, "a", "1", "0"
Tokens == {Needle10, <<SOH>>, <<97>>, <<49>>, <<48>>}

\* pieces in an arbitrary stream
MaxTokens == 4

\* ---------------------------------------------------------------- history
RECURSIVE Flatten(_)
\* the concatenation of a sequence of byte strings
Flatten(ss) == IF Len(ss) = 0 THEN <<>> ELSE ss[1] \o Flatten(Tail(ss))

\* all bytes connection c's worker has read
BytesRead(c) == rd[c]

\* all bytes the peer of connection c wrote
BytesWritten(c) == BytesRead(c) \o wire[c]

IsPrefix(s, t) == Len(s) <= Len(t) /\ SubSeq(t, 1, Len(s)) = s

RECURSIVE SelectSrc(_, _)
\* the spikes connection c contributed to a sequence of channel items, in order
SelectSrc(items, c) ==
    IF Len(items) = 0 THEN <<>>
    ELSE (IF items[1].src = c THEN <<items[1].spike>> ELSE <<>>)
             \o SelectSrc(Tail(items), c)

\* every item ever sent, in channel order: those received, then those queued
Timeline == recv \o chan

RECURSIVE DecodeAll(_)
\* the events of a sequence of frames: those that decode, in order
DecodeAll(fs) ==
    IF Len(fs) = 0 THEN <<>>
    ELSE (LET s == parse_fix_spike(fs[1]) IN IF s.some THEN <<s.val>> ELSE <<>>)
             \o DecodeAll(Tail(fs))

RECURSIVE DrainAll(_)
\* the while let loop on an accumulator that got all its bytes in one chunk:
\* the frames it drains and the bytes it leaves
DrainAll(buf) ==
    LET end_idx == find_fix_end(buf)
    IN  IF end_idx.some
        THEN LET r == DrainAll(Slice(buf, end_idx.val + 1, Len(buf)))
             IN  [frames |-> <<Slice(buf, 0, end_idx.val + 1)>> \o r.frames,
                  rest |-> r.rest]
        ELSE [frames |-> <<>>, rest |-> buf]

RECURSIVE FrameList(_, _)
\* the frames of StreamOf(order, k), one by one
FrameList(order, k) ==
    IF k = 0 THEN <<>>
    ELSE Append(FrameList(order, k - 1), SpikeFrame(order, WhoOf(k), PosFive, PosSeven))

\* --------------------------------------------------------- specifications
InitServer ==
    /\ listener = "idle"
    /\ peer = [c \in Conns |-> NoPeer]
    /\ conn = [c \in Conns |-> "none"]
    /\ wire = [c \in Conns |-> <<>>]
    /\ acc = [c \in Conns |-> <<>>]
    /\ pc = [c \in Conns |-> "read"]
    /\ rd = [c \in Conns |-> <<>>]
    /\ reads = [c \in Conns |-> 0]
    /\ frames = [c \in Conns |-> <<>>]
    /\ chan = <<>>

InitUi ==
    /\ ui_pc = "idle"
    /\ recv = <<>>
    /\ pins = <<>>
    /\ events = <<>>
    /\ last_cursor = None
    /\ pending_pos = None
    /\ striker_input = <<>>
    /\ message_input = <<>>

InitEnc == enc_in = None /\ out = <<>>

InitDec == given = <<>> /\ raw = <<>> /\ spike = None


\* no connection yet, nothing on the channel
InitServerIdle ==
    /\ peer = [c \in Conns |-> NoPeer]
    /\ conn = [c \in Conns |-> "none"]
    /\ wire = [c \in Conns |-> <<>>]
    /\ acc = [c \in Conns |-> <<>>]
    /\ pc = [c \in Conns |-> "read"]
    /\ rd = [c \in Conns |-> <<>>]
    /\ reads = [c \in Conns |-> 0]
    /\ frames = [c \in Conns |-> <<>>]
    /\ chan = <<>>

\* the full system: acceptor, workers, channel and consumer
Init == InitServer /\ InitUi /\ InitEnc /\ InitDec

FramesWritten == peer[1].n + peer[2].n

\* a peer connects and writes n valid spike frames
PeerConnect(c) ==
    \E o \in Orders : \E n \in 1..(MaxFrames - FramesWritten) :
        /\ Connect(c, StreamOf(o, n))
        /\ peer' = [peer EXCEPT ![c] = [order |-> o, n |-> n]]

ReadShort(c) == Read(c, ChunkLen)

ReadAll(c) == Read(c, Len(wire[c]))

Next ==
    \/ Bind
    \/ BindFail
    \/ AcceptErr
    \/ \E c \in Conns : PeerConnect(c)
    \/ \E c \in Conns : ReadShort(c)
    \/ \E c \in Conns : ReadAll(c)
    \/ \E c \in Conns : Frame(c)
    \/ \E c \in Conns : Close(c)
    \/ \E c \in Conns : ReadErr(c)
    \/ PollStart
    \/ PollRecv
    \/ PollEnd

Spec == Init /\ [][Next]_vars

\* the acceptor and its workers with a consumer that never polls.  A worker
\* inside the while let loop is a running thread: it takes its next turn.
NextWorkers ==
    \/ Bind
    \/ BindFail
    \/ AcceptErr
    \/ \E c \in Conns : PeerConnect(c)
    \/ \E c \in Conns : ReadShort(c)
    \/ \E c \in Conns : ReadAll(c)
    \/ \E c \in Conns : Frame(c)
    \/ \E c \in Conns : Close(c)
    \/ \E c \in Conns : ReadErr(c)

\* WF_vars(Frame(c)), with ENABLED <<Frame(c)>>_vars written out: it is
\* FrameGuard(c), since a turn that can run either drains a frame or goes
\* back to read, and so changes the state
FrameFair(c) == []<>(~FrameGuard(c)) \/ []<><<Frame(c)>>_vars

SpecNoPoll ==
    Init /\ [][NextWorkers]_vars /\ \A c \in Conns : FrameFair(c)

\* one worker fed an arbitrary byte stream in arbitrary chunks
ByteStreams ==
    {Flatten(ts) : ts \in UNION {[1..n -> Tokens] : n \in 0..MaxTokens}}

InitChunk ==
    /\ listener = "listening"
    /\ peer = [c \in Conns |-> NoPeer]
    /\ conn = [c \in Conns |-> IF c = 1 THEN "serving" ELSE "none"]
    /\ \E s \in ByteStreams : wire = [c \in Conns |-> IF c = 1 THEN s ELSE <<>>]
    /\ acc = [c \in Conns |-> <<>>]
    /\ pc = [c \in Conns |-> "read"]
    /\ rd = [c \in Conns |-> <<>>]
    /\ reads = [c \in Conns |-> 0]
    /\ frames = [c \in Conns |-> <<>>]
    /\ chan = <<>>
    /\ InitUi /\ InitEnc /\ InitDec

ReadAny(c) == \E n \in 1..Len(wire[c]) : Read(c, n)

NextChunk ==
    \/ ReadAny(1)
    \/ Frame(1)
    \/ Close(1)
    \/ ReadErr(1)

SpecChunk == InitChunk /\ [][NextChunk]_vars

\* the client builds one message and writes it to the acceptor, whose worker
\* reassembles and decodes it
InitClient ==
    /\ listener = "listening"
    /\ peer = [c \in Conns |-> NoPeer]
    /\ conn = [c \in Conns |-> "none"]
    /\ wire = [c \in Conns |-> <<>>]
    /\ acc = [c \in Conns |-> <<>>]
    /\ pc = [c \in Conns |-> "read"]
    /\ rd = [c \in Conns |-> <<>>]
    /\ reads = [c \in Conns |-> 0]
    /\ frames = [c \in Conns |-> <<>>]
    /\ chan = <<>>
    /\ InitUi /\ InitEnc /\ InitDec

ClientRun ==
    /\ ~enc_in.some
    /\ \E a \in ClientArgs : ClientBuild(a[1], a[2], a[3], a[4])

NextClient ==
    \/ ClientRun
    \/ ClientSend(1)
    \/ ReadAll(1)
    \/ Frame(1)
    \/ Close(1)

SpecClient == InitClient /\ [][NextClient]_vars

\* the same worker, scheduled: inside the while let loop it takes its next turn
SpecChunkFair == SpecChunk /\ FrameFair(1)

\* the decoder applied to one frame
InitDecode ==
    /\ listener = "listening"
    /\ peer = [c \in Conns |-> NoPeer]
    /\ conn = [c \in Conns |-> "none"]
    /\ wire = [c \in Conns |-> <<>>]
    /\ acc = [c \in Conns |-> <<>>]
    /\ pc = [c \in Conns |-> "read"]
    /\ rd = [c \in Conns |-> <<>>]
    /\ reads = [c \in Conns |-> 0]
    /\ frames = [c \in Conns |-> <<>>]
    /\ chan = <<>>
    /\ InitUi /\ InitEnc
    /\ \E ch \in DecChoices : given = ch /\ raw = FrameOfChoice(ch)
    /\ spike = None

NextDecode == Decode

SpecDecode == InitDecode /\ [][NextDecode]_vars

\* the decoder applied to one frame that carries one more field
InitFields ==
    /\ listener = "listening"
    /\ InitServerIdle
    /\ InitUi /\ InitEnc
    /\ \E ch \in BaseChoices : \E f \in ExtraFields : \E at \in {"front", "back"} :
           /\ given = ch \o <<f, at>>
           /\ raw = FrameWithExtra(ch, f, at)
    /\ spike = None

SpecFields == InitFields /\ [][NextDecode]_vars

\* the decoder applied to one frame whose body-length and checksum fields
\* are right, wrong, unreadable or missing
InitIntegrity ==
    /\ listener = "listening"
    /\ InitServerIdle
    /\ InitUi /\ InitEnc
    /\ \E ch \in BaseChoices :
       \E len9 \in Opt({RightLen(ch), WrongDigits, Letters, <<BADBYTE>>}) :
       \E sum10 \in Opt({RightSum(BeforeSum(ch, len9)), WrongDigits, Letters,
                          Empty, <<BADBYTE>>}) :
           /\ given = ch \o <<len9, sum10>>
           /\ raw = FrameWithIntegrity(ch, len9, sum10)
    /\ spike = None

SpecIntegrity == InitIntegrity /\ [][NextDecode]_vars

\* the consumer at work: one peer writes two spike frames that decode, its
\* worker sends their events, the timer polls, and the user works the form
InitConsumer ==
    /\ listener = "listening"
    /\ InitServerIdle
    /\ InitUi /\ InitEnc /\ InitDec

\* the events in the list that came from the form
ManualEvents == SelectSeq(events, LAMBDA e : e.purpose = "Manual spike")

PeerWrites ==
    /\ Connect(1, StreamOf(OrderXLast, 2))
    /\ peer' = [peer EXCEPT ![1] = [order |-> OrderXLast, n |-> 2]]

UserConfirms == Len(ManualEvents) < MaxManual /\ ConfirmSpike

NextConsumer ==
    \/ PeerWrites
    \/ ReadShort(1)
    \/ ReadAll(1)
    \/ Frame(1)
    \/ Close(1)
    \/ PollStart
    \/ PollRecv
    \/ PollEnd
    \/ \E p \in CursorPoints : CursorMoved(p)
    \/ ProposeSpike
    \/ UserConfirms
    \/ CancelSpike
    \/ \E t \in StrikerTexts : StrikerChanged(t)
    \/ \E t \in MessageTexts : SpikeMessageChanged(t)

SpecConsumer == InitConsumer /\ [][NextConsumer]_vars

\* ------------------------------------------------------------------ claims
\* C1: round trip.  For a valid actor and note (no delimiter, no '='), once
\* the worker has read and processed all bytes of the client's message, the
\* channel holds one Spike Event for it, whose who is the actor and whose
\* message is the note.
C1_RoundTrip ==
    (/\ enc_in.some /\ ValidValue(enc_in.val.who) /\ ValidValue(enc_in.val.note)
     /\ conn[1] # "none" /\ rd[1] = out /\ pc[1] = "read")
        => /\ Len(SelectSrc(Timeline, 1)) = 1
           /\ SelectSrc(Timeline, 1)[1].who = enc_in.val.who
           /\ SelectSrc(Timeline, 1)[1].message = Some(enc_in.val.note)

\* C2: two valid spike frames delivered to one connection in a single chunk
\* yield exactly two events on the channel, the first frame's event first.
C2_TwoFramesTwoEvents ==
    \A c \in Conns :
        (peer[c].n = 2 /\ reads[c] = 1 /\ wire[c] = <<>> /\ pc[c] = "read")
            => SelectSrc(Timeline, c) = SpikesOf(peer[c].order, 2)

\* C3: for a stream of valid spike frames whose values hold no delimiter, no
\* '=' and no "10=", every frame the worker drains is one of the frames the
\* peer wrote, in order: it ends at the delimiter of a checksum field.
C3_DrainedFramesAreSentFrames ==
    \A c \in Conns : IsPrefix(frames[c], FrameList(peer[c].order, peer[c].n))

\* C4: however a byte stream is split into chunks, the frames the worker has
\* drained and the bytes left in its accumulator, each time it goes back to
\* read, are those of feeding everything read so far as one chunk.
C4_ChunkingInvariance ==
    \A c \in Conns :
        pc[c] = "read" =>
            LET whole == DrainAll(rd[c])
            IN  frames[c] = whole.frames /\ acc[c] = whole.rest

\* a stream read in several chunks, all of it, with two frames drained
C4_Witness ==
    /\ reads[1] = 2 /\ wire[1] = <<>> /\ pc[1] = "read"
    /\ Len(frames[1]) = 2

\* the returned buffer without its last field, and that last field's value
BeforeTrailer == Slice(out, 0, Len(out) - 7)
TrailerDigits == Slice(out, Len(out) - 4, Len(out) - 1)

\* C5: in every buffer build_spike_message returns, the last field is
\* 10=<three decimal digits> and its value is the sum, modulo 256, of all
\* bytes before that field (the body length already rewritten among them).
C5_ChecksumLaw ==
    enc_in.some =>
        /\ Len(out) >= 7
        /\ Slice(out, Len(out) - 7, Len(out) - 4) = Needle10
        /\ out[Len(out)] = SOH
        /\ BeforeTrailer[Len(BeforeTrailer)] = SOH
        /\ Len(TrailerDigits) = 3 /\ AllDigits(TrailerDigits)
        /\ DecimalValue(TrailerDigits) = SumBytes(BeforeTrailer) % 256

\* a message whose checksum needs zero padding
C5_Witness ==
    enc_in.some /\ TrailerDigits[1] = ZERO

\* the second field of the returned buffer (9=<digits>) and where the body starts
BodyLenField == SplitSOH(out)[2]
BodyStart == Len(SplitSOH(out)[1]) + 1 + Len(BodyLenField) + 1

\* C6: in every buffer build_spike_message returns, the value of the tag-9
\* field is the number of bytes from just after that field's delimiter
\* through the delimiter of the last field before the checksum field.
C6_BodyLengthLaw ==
    enc_in.some =>
        /\ Slice(BodyLenField, 0, 2) = Needle9
        /\ AllDigits(Slice(BodyLenField, 2, Len(BodyLenField)))
        /\ DecimalValue(Slice(BodyLenField, 2, Len(BodyLenField)))
               = Len(BeforeTrailer) - BodyStart

\* a message whose body length has more digits than the placeholder
C6_Witness ==
    enc_in.some /\ Len(BodyLenField) > 5

\* the decoder ran; its answer
Decoded == spike.some
Answer == spike.val

\* a given frame that must be rejected: 35 absent or not U1, 55 absent or
\* not NKISI, 448, 6010 or 6011 absent, or a position that is no float
MustReject ==
    \/ given[1] # Some(MsgTypeU1)
    \/ given[2] # Some(SymbolNKISI)
    \/ ~given[3].some
    \/ ~given[4].some \/ given[4].val \notin FloatTexts
    \/ ~given[5].some \/ given[5].val \notin FloatTexts

\* C7: parse_fix_spike returns nothing, and nothing is sent on the channel,
\* for a frame whose tag 35 is absent or not U1, whose tag 55 is absent or not
\* NKISI, or that lacks 448, 6010 or 6011 or has a position that is no float.
C7_Rejection ==
    (Decoded /\ MustReject) => (~Answer.some /\ chan = <<>>)

\* a frame rejected for its symbol alone
C7_Witness ==
    /\ Decoded /\ ~Answer.some
    /\ given[1] = Some(MsgTypeU1) /\ given[2] = Some(SymbolX)
    /\ given[3] = Some(WhoOf(1))
    /\ given[4] = Some(PosFive) /\ given[5] = Some(PosSeven)

\* lo <= v <= hi for an f32 v and integers lo, hi
Within(v, lo, hi) ==
    /\ v.kind # "nan"
    /\ ~FLess(v, Fin(FALSE, lo, 0))
    /\ ~FLess(Fin(FALSE, hi, 0), v)

\* C8: every Spike Event parse_fix_spike returns has x within [0,100] and y
\* within [0,150].
C8_InBounds ==
    (Decoded /\ Answer.some) =>
        /\ Within(Answer.val.pos[1], 0, FIGURE_W)
        /\ Within(Answer.val.pos[2], 0, FIGURE_H)

\* C9: every Spike Event parse_fix_spike returns, and so every event on the
\* channel, has a non-empty who.
C9_WhoNonEmpty ==
    /\ (Decoded /\ Answer.some) => Answer.val.who # <<>>
    /\ \A k \in 1..Len(chan) : chan[k].spike.who # <<>>

\* C10: under every interleaving of the workers, the events one connection
\* contributes are on the channel, and reach the consumer, in the order in
\* which their frames arrived in that connection's byte stream.
C10_PerConnectionOrder ==
    \A c \in Conns :
        LET decoded == DecodeAll(frames[c])
        IN  /\ Flatten(frames[c]) \o acc[c] = BytesRead(c)
            /\ SelectSrc(Timeline, c) = decoded
            /\ IsPrefix(SelectSrc(recv, c), decoded)

\* two events of connection 1 with one of connection 2 between them, all three
\* received by the consumer
C10_Witness ==
    /\ Len(recv) >= 3
    /\ recv[1].src = 1 /\ recv[2].src = 2 /\ recv[3].src = 1
    /\ recv[1].spike.who = WhoOf(1) /\ recv[3].spike.who = WhoOf(2)

\* what belongs to connection c's worker: whether it runs, its unread input,
\* its accumulator, its position, and the events it has pending on the channel
WorkerState(c) == <<conn[c], wire[c], acc[c], pc[c], SelectSrc(chan, c)>>

\* a step in which the worker of connection c ends (peer close or read error)
Terminates(c) == conn[c] = "serving" /\ conn'[c] = "closed"

\* C11: failure isolation.  No step takes the acceptor out of Listening (an
\* accept error least of all), and a step in which one worker ends by peer
\* close or read error leaves every other connection's worker, accumulator
\* and pending events as they were.
C11_FailureIsolation ==
    [][/\ listener = "listening" => listener' = "listening"
       /\ \A c \in Conns : Terminates(c) =>
              \A d \in Conns \ {c} : WorkerState(d)' = WorkerState(d)]_vars

\* connection 1's worker has ended while connection 2's worker, accepted
\* while listening, still serves with bytes buffered and an event pending
C11_Witness ==
    /\ listener = "listening"
    /\ conn[1] = "closed" /\ conn[2] = "serving"
    /\ acc[2] # <<>> /\ SelectSrc(chan, 2) # <<>>

\* the frame drained by a step that drains one from connection c
Drained(c) == frames'[c][Len(frames'[c])]

\* C12: each frame a worker drains and decodes is sent exactly once (a frame
\* that does not decode sends nothing), and the send never blocks: with a
\* consumer that never polls, whatever is already queued, a worker that is
\* processing a chunk always gets back to its next read.
C12_SendNeverBlocks ==
    /\ [][\A c \in Conns :
             frames'[c] # frames[c] =>
                 LET s == parse_fix_spike(Drained(c))
                 IN  chan' = IF s.some
                             THEN Append(chan, [src |-> c, spike |-> s.val])
                             ELSE chan]_vars
    /\ \A c \in Conns : (pc[c] = "scan") ~> (pc[c] = "read")

\* three events queued, none ever received, every worker back at its read
C12_Witness ==
    /\ Len(chan) = MaxFrames /\ recv = <<>>
    /\ \A c \in Conns : pc[c] = "read"
    /\ conn[1] = "serving" /\ conn[2] = "serving"

\* the extra field of the frame and where it stands
Extra == given[8]
ExtraAt == given[9]

\* the frame's dictionary fields are those of a valid spike
BaseValid == given[1] = Some(MsgTypeU1) /\ given[2] = Some(SymbolNKISI)

\* C13: a frame with a field whose left side is no integer tag, or whose left
\* or right side is not UTF-8, is rejected as a whole: parse_fix_spike returns
\* nothing and nothing is sent, also when the field's tag is none the decoder
\* uses and all required fields are present and valid.
C13_MalformedField ==
    (Decoded /\ Extra \in MalformedFields) => (~Answer.some /\ chan = <<>>)

\* a valid spike frame rejected for a trailing field 7=<byte that is not UTF-8>
C13_Witness ==
    /\ Decoded /\ ~Answer.some
    /\ BaseValid /\ Extra = <<<<55>>, <<BADBYTE>>>> /\ ExtraAt = "back"

\* the frame's required fields are all valid: 35=U1, 55=NKISI, an actor, and
\* two positions that are float literals
RequiredValid ==
    /\ given[1] = Some(MsgTypeU1) /\ given[2] = Some(SymbolNKISI)
    /\ given[3].some /\ given[3].val # <<>>
    /\ given[4].some /\ given[4].val \in FloatTexts
    /\ given[5].some /\ given[5].val \in FloatTexts

\* C14: a frame whose required fields are valid yields an event whether tag
\* 58 and tag 60 are present or not and whether or not the tag-60 value is an
\* RFC3339 timestamp; message is the tag-58 value or unset, when is the
\* parsed timestamp, or unset when tag 60 is absent or does not parse.
C14_OptionalNeverReject ==
    (Decoded /\ RequiredValid) =>
        /\ Answer.some
        /\ Answer.val.message = given[6]
        /\ Answer.val.when = IF given[7] = Some(TransactTime)
                              THEN Some(<<2026, 11, 4, 13, 21, 0>>) ELSE None
        /\ Len(chan) = 1 /\ chan[1].spike = Answer.val

\* an event from a frame without tag 58 and with 60=bad: both fields unset
C14_Witness ==
    /\ Decoded /\ RequiredValid
    /\ given[6] = None /\ given[7] = Some(TimeBad)
    /\ Answer.some /\ Answer.val.message = None /\ Answer.val.when = None

\* the index in DecTags of the tag a left side names, 0 when it names none
TagIndex(key) ==
    LET t == ParseI32(key)
        ks == {k \in 1..Len(DecTags) : t.some /\ DecTags[k] = t.val}
    IN  IF ks = {} THEN 0 ELSE CHOOSE k \in ks : TRUE

\* the value each dictionary tag has at its last occurrence in the frame
LastValues ==
    LET k == TagIndex(Extra[1])
        base == SubSeq(given, 1, Len(DecTags))
    IN  IF k # 0 /\ (ExtraAt = "back" \/ ~given[k].some)
        THEN [base EXCEPT ![k] = Some(Extra[2])]
        ELSE base

\* C15: when a tag occurs twice in a frame the decoder decides everything by
\* the value of the later occurrence: its answer is the answer for the frame
\* that carries each tag once, with its last value; 448=a followed by 448=b
\* yields who = b, and 35=U1 followed by 35=SPK yields nothing.
C15_LastWriteWins ==
    (Decoded /\ Extra \in RepeatedFields) =>
        /\ Answer = parse_fix_spike(FrameOfChoice(LastValues))
        /\ (BaseValid /\ Extra = <<ToDecimal(448), WhoOf(2)>>) =>
               (Answer.some /\ Answer.val.who =
                    IF ExtraAt = "back" THEN WhoOf(2) ELSE WhoOf(1))
        /\ (BaseValid /\ Extra[2] = MsgTypeSPK) =>
               (Answer.some <=> ExtraAt = "front")
        /\ (given[1] = Some(MsgTypeSPK) /\ given[2] = Some(SymbolNKISI)
               /\ Extra = <<ToDecimal(35), MsgTypeU1>>) =>
               (Answer.some <=> ExtraAt = "back")

\* 448=a ... 448=b decoded to who = b
C15_Witness ==
    /\ Decoded /\ BaseValid
    /\ Extra = <<ToDecimal(448), WhoOf(2)>> /\ ExtraAt = "back"
    /\ Answer.some /\ Answer.val.who = WhoOf(2)

\* one field on the wire: the tag's digits, '=', the value, one delimiter
WireField(tag, value) == tag \o <<EQ>> \o value \o <<SOH>>

\* C16: every buffer build_spike_message returns is a run of fields, each
\* ended by one delimiter: 8=FIX.4.2, then 9=<digits>, then 35=SPK, then the
\* custom fields 100, 101, 102 and 52, then 10=<3 digits> as the last field,
\* with no byte after that field's delimiter.
C16_FrameShape ==
    enc_in.some =>
        /\ AllDigits(Slice(BodyLenField, 2, Len(BodyLenField)))
        /\ Len(TrailerDigits) = 3 /\ AllDigits(TrailerDigits)
        /\ out = WireField(<<56>>, BeginString)
                   \o WireField(<<57>>, Slice(BodyLenField, 2, Len(BodyLenField)))
                   \o WireField(<<51, 53>>, MsgTypeSPK)
                   \o WireField(<<49, 48, 48>>, ToDecimal(enc_in.val.spike_id))
                   \o WireField(<<49, 48, 49>>, enc_in.val.who)
                   \o WireField(<<49, 48, 50>>, enc_in.val.note)
                   \o WireField(<<53, 50>>, enc_in.val.ts)
                   \o WireField(<<49, 48>>, TrailerDigits)

\* a message built for an actor that holds the delimiter byte and a '='
C16_Witness ==
    /\ enc_in.some
    /\ enc_in.val.who = <<SOH, EQ>>
    /\ Len(out) > 0

\* the client's buffer before the body length is computed, rebuilt from its
\* arguments, and the header's body-length field in it: "9=" at offset 10,
\* the placeholder at 12..14, its delimiter at 15
Unfinished ==
    SpikeFields(enc_in.val.spike_id, enc_in.val.who, enc_in.val.note, enc_in.val.ts)
HeaderValueAt == Len(WireField(<<56>>, BeginString)) + Len(Needle9)
HeaderBodyStart == HeaderValueAt + Len(BodyLenPlaceholder) + 1

\* C17: for every spike id, actor and note, also ones that hold "9=" or the
\* delimiter, build_spike_message returns without panicking:
\* find_after_bodylen answers the offset just after the header's body-length
\* field, and write_bodylen_in_place replaces that field's value and no other
\* byte.
C17_EncoderNeverFails ==
    enc_in.some =>
        /\ ~enc_in.val.panic
        /\ find_after_bodylen(Unfinished) = Some(HeaderBodyStart)
        /\ write_bodylen_in_place(Unfinished, Len(Unfinished) - HeaderBodyStart)
               = Some(Slice(Unfinished, 0, HeaderValueAt)
                      \o ToDecimal(Len(Unfinished) - HeaderBodyStart)
                      \o Slice(Unfinished, HeaderBodyStart - 1, Len(Unfinished)))

\* a message built for the actor "9=" and a note that is the delimiter byte
C17_Witness ==
    /\ enc_in.some /\ ~enc_in.val.panic
    /\ enc_in.val.who = Needle9 /\ enc_in.val.note = <<SOH>>
    /\ Len(out) > 0

\* C18: a bind failure is fatal.  Once the bind has failed the acceptor never
\* reaches Listening, no connection is accepted or served, and the process
\* does not go on: the user interface takes no further step and nothing is
\* polled from the channel.
C18_BindFailureFatal ==
    /\ [](listener = "panicked" => \A c \in Conns : conn[c] = "none")
    /\ [][listener = "panicked" =>
              /\ listener' = "panicked"
              /\ UNCHANGED <<conn, chan, uiVars>>]_vars

\* C19: byte conservation.  At every point of a connection's life the frames
\* drained so far, in order, followed by the accumulator are exactly the
\* chunks read so far, in order: no byte is dropped, duplicated or reordered,
\* and no byte is in two frames.  A drained frame is never empty.
C19_ByteConservation ==
    \A c \in Conns :
        /\ Flatten(frames[c]) \o acc[c] = BytesRead(c)
        /\ \A k \in 1..Len(frames[c]) : frames[c][k] # <<>>

\* mid-stream: two reads done, a frame drained, bytes left in the
\* accumulator and more still unread
C19_Witness ==
    /\ reads[1] = 2 /\ wire[1] # <<>>
    /\ Len(frames[1]) >= 1 /\ acc[1] # <<>>

\* a complete frame lies in buf: "10=" at some offset i and a delimiter at
\* some offset j >= i + 3
HoldsFrame(buf) ==
    \E i \in 0..(Len(buf) - 4) : \E j \in (i + 3)..(Len(buf) - 1) :
        /\ buf[i + 1] = 49 /\ buf[i + 2] = 48 /\ buf[i + 3] = EQ
        /\ buf[j + 1] = SOH

\* C20: the processing of a chunk ends.  Every drain takes at least one byte
\* off the accumulator, so a chunk yields finitely many frames, and a worker
\* in the loop gets back to its read; when it does, no "10=" in the
\* accumulator has a delimiter anywhere after it, "10=" plus delimiter at the
\* very end of the buffer included.
C20_ChunkTerminates ==
    /\ [](\A c \in Conns : pc[c] = "read" => ~HoldsFrame(acc[c]))
    /\ [][\A c \in Conns :
             frames'[c] # frames[c] => Len(acc'[c]) < Len(acc[c])]_vars
    /\ \A c \in Conns : (pc[c] = "scan") ~> (pc[c] = "read")

\* a stream that ended in "10=" and the delimiter, all drained
C20_Witness ==
    /\ pc[1] = "read" /\ wire[1] = <<>> /\ acc[1] = <<>>
    /\ Len(frames[1]) >= 1
    /\ frames[1][Len(frames[1])] = Needle10 \o <<SOH>>
    /\ reads[1] = 2

\* the frame's tag-9 and tag-10 values (None: the field is absent), and the
\* same dictionary fields sent with the right body length and checksum
LenGiven == given[8]
SumGiven == given[9]
RightFrame ==
    LET ch == SubSeq(given, 1, Len(DecTags))
        len9 == Some(RightLen(ch))
    IN  FrameWithIntegrity(ch, len9, Some(RightSum(BeforeSum(ch, len9))))

\* the value of an integrity field, when the field is there, is UTF-8 text
Readable(v) == v.some => IsUtf8(v.val)

\* C21 as stated: whatever the presence or values of tags 9 and 10, the
\* decoder answers as it does for the frame whose values are right.
C21_IntegrityIgnored ==
    Decoded => Answer = parse_fix_spike(RightFrame)

\* C21: the decoder does not check the integrity fields.  A frame whose
\* tag-9 and tag-10 fields are absent or carry any UTF-8 text, right or
\* wrong, gets the answer of the frame whose values are right; a tag-9 or
\* tag-10 value that is not UTF-8 makes the decoder reject the frame.
C21_IntegrityIgnoredIfReadable ==
    Decoded =>
        IF Readable(LenGiven) /\ Readable(SumGiven)
        THEN Answer = parse_fix_spike(RightFrame)
        ELSE ~Answer.some /\ chan = <<>>

\* a valid spike accepted with a wrong checksum and no body length at all
C21_Witness ==
    /\ Decoded /\ BaseValid
    /\ LenGiven = None /\ SumGiven = Some(WrongDigits)
    /\ SumGiven # Some(RightSum(BeforeSum(SubSeq(given, 1, Len(DecTags)), LenGiven)))
    /\ Answer.some

\* what an event list entry and a spike have in common
Carried(pos, who, message) == [pos |-> pos, who |-> who, message |-> message]

\* the events recorded for spikes from the channel, in list order
Recorded ==
    LET ext == SelectSeq(events, LAMBDA e : e.purpose = "External FIX spike")
    IN  [k \in 1..Len(ext) |-> Carried(ext[k].pos, ext[k].performed_by, ext[k].notes)]

\* the spikes still queued on the channel, oldest first
Queued ==
    [k \in 1..Len(chan) |-> Carried(chan[k].spike.pos, chan[k].spike.who,
                                     chan[k].spike.message)]

\* the spikes the worker has sent: those of the frames it drained, in order
Sent ==
    LET ds == DecodeAll(frames[1])
    IN  [k \in 1..Len(ds) |-> Carried(ds[k].pos, ds[k].who, ds[k].message)]

\* C22: consumer delivery.  Under every interleaving of worker sends, polls
\* and form messages (no ClearAll, no Load), the events recorded for channel
\* spikes followed by the spikes still queued are exactly the spikes sent,
\* in channel order, each with its position, who and message: none twice,
\* none lost.  Every event has its pin, at the same place in the list, and
\* a PollExternal update ends only with the channel drained.
C22_ConsumerDelivery ==
    /\ [](Recorded \o Queued = Sent)
    /\ [](/\ Len(pins) = Len(events)
          /\ \A k \in 1..Len(events) : pins[k] = events[k].pos)
    /\ [][(ui_pc = "polling" /\ ui_pc' = "idle") => chan' = <<>>]_vars

\* a spike from the channel, one confirmed by hand, and a second from the
\* channel, recorded in that order, with nothing left queued
C22_Witness ==
    /\ Len(events) = 3 /\ chan = <<>> /\ ui_pc = "idle"
    /\ events[1].purpose = "External FIX spike" /\ events[1].performed_by = WhoOf(1)
    /\ events[2].purpose = "Manual spike"
    /\ events[3].purpose = "External FIX spike" /\ events[3].performed_by = WhoOf(2)
====
